---- MODULE Spec2Model ----
(***************************************************************************)
(* Fleet registry and reconciliation controller of nofx.                   *)
(*                                                                         *)
(* The desired-state store (db package), the process start-up (main) and   *)
(* the administrative handlers of the API server (handleAdminReload,       *)
(* handleSetTradingEnabled, handleAdminUpsertTrader,                       *)
(* handleAdminDeleteTrader) are translated from the source.  The trader    *)
(* manager (AddTrader, RemoveTrader, GetTrader, GetAllTraders,             *)
(* SetTradingEnabled, StartAll) is not part of the available source; it is *)
(* modelled from the registry contract of the specification.               *)
(*                                                                         *)
(* A request handler is a goroutine: every call it makes into the manager  *)
(* or the store is one atomic step, and steps of different handlers        *)
(* interleave.                                                             *)
(*                                                                         *)
(* The invocation client (package mcp: the setters of the default          *)
(* configuration, CallWithMessages, CallWithMessagesWithConfig) is         *)
(* translated from the source; one callOnce is one step whose result is    *)
(* any of the results the provider may give.                               *)
(***************************************************************************)
EXTENDS Integers, FiniteSets, Sequences, TLC

\* ------------------------------------------------------------------ bounds
NumIds == 3          \* trader identifiers 1..NumIds
MaxReloads == 3      \* reload requests issued in one behaviour
MaxConcReloads == 2  \* reload requests issued in one behaviour of overlapping passes
MaxEdits == 1        \* upsert/delete requests issued in one behaviour
MaxToggles == 1      \* trading-switch requests issued in one behaviour
MaxSets == 2         \* calls of a setter of the default configuration
MaxCalls == 2        \* invocations made by one worker

Ids == 1..NumIds
Handlers == {"h1", "h2"}   \* request goroutines that may be in flight together

\* Non-enabled fields of a record, abstracted to one value: two valid
\* parameter sets and one that AddTrader rejects; "none" marks an absent entry.
ValidParams == {"v1", "v2"}
Params == ValidParams \cup {"bad"}

VARIABLES
    store,      \* the traders collection: trader_id -> TraderDoc or NoDoc
    traders,    \* the manager's registry: trader_id -> handle or NoHandle
    mainPc,     \* position of main: "boot", "serving", "started", "stopping",
                \* "stopped"; "exited" and "initFailed" after a log.Fatalf
    h,          \* per request goroutine: locals of handleAdminReload
    newSwitch,  \* how AddTrader sets the trading switch of a new handle
    nReloads, nEdits, nToggles,
    toggleResp, \* the last request served by handleSetTradingEnabled and its answer
    defaultConfig,  \* mcp: the shared default configuration
    mc,             \* mcp: per worker, the locals of the call it is making
    sc,             \* mcp: per worker, the locals of the setter it is running
    nSets, nCalls

regVars == <<store, traders, mainPc, h, newSwitch, nReloads, nEdits, nToggles, toggleResp>>
mcpVars == <<defaultConfig, mc, sc, nSets, nCalls>>
vars == <<regVars, mcpVars>>

\* ------------------------------------------------------------------ store
NoDoc == [params |-> "none", enabled |-> FALSE]
TraderDoc == [params : Params, enabled : BOOLEAN]
EmptyStore == [i \in Ids |-> NoDoc]

DocIds(list) == {i \in Ids : list[i].params # "none"}

\* db.ToConfig: the TraderConfig built from one TraderDoc.
ToConfig(id, td) == [ID |-> id, params |-> td.params, Enabled |-> td.enabled]

\* db.UpsertTrader: $set of every field of the document keyed by trader_id.
UpsertTrader(coll, id, td) == [coll EXCEPT ![id] = td]

\* db.DeleteTrader: DeleteOne by trader_id (no error when absent).
DeleteTrader(coll, id) == [coll EXCEPT ![id] = NoDoc]

\* ------------------------------------------------------------------ global parameters
\* The arguments AddTrader takes besides the trader's configuration:
\* coinPoolURL, maxDailyLoss, maxDrawdown (both in percent),
\* stopTradingMinutes and leverage.
\* The zero value of each: a config.Config of which only Traders was set.
ZeroGlobals ==
    [CoinPoolAPIURL |-> "", MaxDailyLoss |-> 0, MaxDrawdown |-> 0,
     StopTradingMinutes |-> 0,
     Leverage |-> [BTCETHLeverage |-> 0, AltcoinLeverage |-> 0]]

\* The config.Config literal of handleAdminReload: MaxDailyLoss 0.1,
\* MaxDrawdown 0.2, StopTradingMinutes 60, leverage 5 and 5, no coin-pool URL.
ReloadGlobals ==
    [CoinPoolAPIURL |-> "", MaxDailyLoss |-> 10, MaxDrawdown |-> 20,
     StopTradingMinutes |-> 60,
     Leverage |-> [BTCETHLeverage |-> 5, AltcoinLeverage |-> 5]]

\* The global parameters a configuration file may give: the values above,
\* or others.
FileGlobals ==
    {ReloadGlobals,
     [CoinPoolAPIURL |-> "http://pool", MaxDailyLoss |-> 5, MaxDrawdown |-> 15,
      StopTradingMinutes |-> 30,
      Leverage |-> [BTCETHLeverage |-> 10, AltcoinLeverage |-> 3]]}

\* ------------------------------------------------------------------ registry
\* A handle: its configuration, its trading switch, the number of times its
\* task was launched, whether its task was asked to stop, and the number of
\* its tasks that are running.
NoHandle ==
    [params |-> "none", enabled |-> FALSE, runs |-> 0, stop |-> FALSE, live |-> 0,
     globals |-> ZeroGlobals]

LiveIds(reg) == {i \in Ids : reg[i].params # "none"}

\* GetAllTraders: a copy of the registry content at the time of the call.
GetAllTraders(reg) == reg

\* GetTrader: err == nil exactly when the identifier is registered.
GetTraderOK(reg, id) == reg[id].params # "none"

\* Faulty variant of AddTraderOK: the duplicate check is missing, a second
\* AddTrader replaces the registered handle.
AddTraderOK_NoDupCheck(reg, cfg) == cfg.params \in ValidParams

\* AddTrader: DuplicateIdentifier when present, InvalidConfig when the
\* configuration is rejected.
AddTraderOK(reg, cfg) == reg[cfg.ID].params = "none" /\ cfg.params \in ValidParams

\* The trading switch of a handle built from cfg: the manager either takes
\* the configuration's Enabled or switches every new handle on.
NewSwitches == {"cfg", "on"}
InitialSwitch(cfg) == IF newSwitch = "cfg" THEN cfg.Enabled ELSE TRUE

\* Faulty variant of AddTrader: the task is launched by AddTrader itself.
AddTrader_Starts(reg, cfg, g) ==
    [reg EXCEPT ![cfg.ID] =
        [params |-> cfg.params, enabled |-> InitialSwitch(cfg), runs |-> 1,
         stop |-> FALSE, live |-> 1, globals |-> g]]

\* The registry after a successful AddTrader: the handle is registered, its
\* task is not started.
AddTrader(reg, cfg, g) ==
    [reg EXCEPT ![cfg.ID] =
        [params |-> cfg.params, enabled |-> InitialSwitch(cfg), runs |-> 0,
         stop |-> FALSE, live |-> 0, globals |-> g]]

\* Faulty variant of RemoveTrader: the handle is switched off and stays in
\* the registry.
RemoveTrader_KeepsHandle(reg, id) == [reg EXCEPT ![id].enabled = FALSE]

\* Faulty variant of RemoveTraderOK: removing an absent identifier is not an
\* error.
RemoveTraderOK_Always(reg, id) == TRUE

\* RemoveTrader: NotFound when absent, otherwise the handle is evicted.
RemoveTraderOK(reg, id) == reg[id].params # "none"
RemoveTrader(reg, id) == [reg EXCEPT ![id] = NoHandle]

\* Faulty variant of SetTradingEnabled: the handle is built anew with the
\* requested switch, its task forgotten.
SetTradingEnabled_Recreates(reg, id, v) ==
    IF reg[id].params # "none"
    THEN [reg EXCEPT ![id] = [params |-> reg[id].params, enabled |-> v, runs |-> 0,
                              stop |-> FALSE, live |-> 0,
                              globals |-> reg[id].globals]]
    ELSE reg

\* SetTradingEnabled: NotFound when absent, otherwise flips the flag in place.
SetTradingEnabledOK(reg, id) == reg[id].params # "none"
SetTradingEnabled(reg, id, v) ==
    IF SetTradingEnabledOK(reg, id) THEN [reg EXCEPT ![id].enabled = v] ELSE reg

\* go trader.Run(): one more task launched on the handle.
Run(reg, id) == [reg EXCEPT ![id].runs = @ + 1, ![id].live = @ + 1]

\* StartAll: launches Run on every registered handle.
StartAllTraders(reg) ==
    [i \in Ids |-> IF reg[i].params # "none"
                   THEN [reg[i] EXCEPT !.runs = @ + 1, !.live = @ + 1] ELSE reg[i]]

\* StopAll, first half: every registered handle's task is asked to stop.
StopAllTraders(reg) ==
    [i \in Ids |-> IF reg[i].params # "none"
                   THEN [reg[i] EXCEPT !.stop = TRUE] ELSE reg[i]]

\* StopAll, second half: every task that was asked to stop has acknowledged.
AllAcknowledged(reg) == \A i \in Ids : reg[i].stop => reg[i].live = 0

\* A task polls its stop signal between two cycles and ends.
TaskEnds(reg, id) == [reg EXCEPT ![id].live = @ - 1]

\* ------------------------------------------------------------------ handler locals
\* What a handler keeps of the pass it served before the current one.
NoPass == [status |-> "none", snap |-> EmptyStore, clean |-> FALSE, regAfter |-> {}]

\* The locals of handleAdminReload (tradersFromDB, currentTraders, the loop
\* positions and the three counters), followed by the record of what the pass
\* did: the identifiers it called RemoveTrader / AddTrader for and those for
\* which the call succeeded, the tasks it launched, the identifiers it called
\* SetTradingEnabled for, the registry as listed by the switch loop and as it
\* was when the pass ended, whether db.ListTraders failed, whether another
\* goroutine changed the registry during the pass.
Idle == [pc |-> "idle",
         tradersFromDB |-> EmptyStore,
         currentTraders |-> [i \in Ids |-> NoHandle],
         remTodo |-> {}, addTodo |-> {}, pending |-> 0, syncTodo |-> {},
         removedCount |-> 0, addedCount |-> 0, synced |-> 0,
         remTried |-> {}, remOK |-> {}, addTried |-> {}, addOK |-> {},
         started |-> {}, launches |-> 0, syncSet |-> {}, regSync |-> {},
         fetchErr |-> FALSE, dirty |-> FALSE, prev |-> NoPass,
         regEnd |-> [i \in Ids |-> NoHandle]]

Ended == {"done", "failed", "panicked"}
InFlight == {"removing", "adding", "syncing"}

currentTraderIDs(r) == LiveIds(r.currentTraders)
dbTraderIDs(r) == DocIds(r.tradersFromDB)

Min(S) == CHOOSE x \in S : \A y \in S : x <= y

\* The locals of every handler after handler p moved to rec; a handler in
\* flight other than p notes when the step changed the registry under it.
SetH(p, rec, reg2) ==
    [q \in Handlers |->
        IF q = p THEN rec
        ELSE IF reg2 # traders /\ h[q].pc \in InFlight
             THEN [h[q] EXCEPT !.dirty = TRUE] ELSE h[q]]

\* No RemoveTrader, AddTrader or GetTrader of the pass returned an error.
NoFailure(r) == r.remOK = r.remTried /\ r.addOK = r.addTried /\ r.started = r.addOK

Summary(r) ==
    IF r.pc \in {"done", "panicked"}
    THEN [status |-> r.pc, snap |-> r.tradersFromDB,
          clean |-> NoFailure(r) /\ ~r.dirty, regAfter |-> LiveIds(r.regEnd)]
    ELSE NoPass

\* ------------------------------------------------------------------ mcp: configuration and errors
maxRetries == 3          \* maxRetries := 3
WaitUnit == 2            \* time.Duration(attempt) * 2 * time.Second
DefaultTimeout == 120    \* 120 * time.Second
SetConfigTimeout == 30   \* 30 * time.Second

Workers == {"w1", "w2"}  \* goroutines calling the client
Keys == {"", "k1", "k2"} \* API keys; "" is the unset key

\* var defaultConfig = Config{...}: no APIKey.
InitialConfig ==
    [Provider |-> "deepseek", APIKey |-> "", SecretKey |-> "",
     BaseURL |-> "https://api.deepseek.com/v1", Model |-> "deepseek-chat",
     Timeout |-> DefaultTimeout]

\* The configurations callers pass to SetConfig and to
\* CallWithMessagesWithConfig.
CallerConfigs ==
    {[Provider |-> "custom", APIKey |-> "k2", SecretKey |-> "",
      BaseURL |-> "u2", Model |-> "m2", Timeout |-> 0],
     [Provider |-> "qwen", APIKey |-> "", SecretKey |-> "",
      BaseURL |-> "u3", Model |-> "m3", Timeout |-> 60]}

\* An error is its description, a sequence of fragments; a fragment stands
\* for a piece of text that contains no other fragment.
NoErr == <<>>

\* The substrings isRetryableError looks for.
retryableErrors ==
    {"EOF", "timeout", "connection reset", "connection refused",
     "temporary failure", "no such host"}

\* strings.ToLower on a fragment.
Lower(f) == IF f = "Timeout" THEN "timeout" ELSE IF f = "EOF" THEN "eof" ELSE f

\* Faulty variant of isRetryableError: the description and the substrings are
\* compared in lower case.
isRetryableError_IgnoreCase(err) ==
    \E k \in 1..Len(err) : Lower(err[k]) \in {Lower(r) : r \in retryableErrors}

\* Faulty variant of isRetryableError: every error is taken for a transient
\* one.
isRetryableError_AnyError(err) == Len(err) > 0

\* strings.Contains(errStr, retryable) for some retryable.
isRetryableError(err) == \E k \in 1..Len(err) : err[k] \in retryableErrors

\* The errors one callOnce may return: client.Do failed (the cause follows
\* the prefix; the cause of an expired http.Client timeout spells "Timeout"
\* with a capital), a status other than 200 (the response body follows), an
\* empty choices list.
AttemptErrors ==
    {<<"send request failed: ", "EOF">>,
     <<"send request failed: ", "connection refused">>,
     <<"API error (status ", "401", "): ", "invalid key">>,
     <<"API error (status ", "503", "): ", "upstream ", "timeout">>,
     <<"send request failed: ", "context deadline exceeded (Client.", "Timeout",
       " exceeded while awaiting headers)">>,
     <<"API returned an empty response">>}

\* fmt.Errorf of callOnce when len(result.Choices) == 0.
EmptyResponse == <<"API returned an empty response">>

\* What one callOnce returns: (text, nil) or ("", err).
Outcomes ==
    {[text |-> "content", err |-> NoErr]} \cup
    {[text |-> "", err |-> e] : e \in AttemptErrors}

\* The error a call returns: none, the missing key, the error of an attempt
\* as it is, or fmt.Errorf("... %d ...: %w", maxRetries, lastErr).
NoError == [kind |-> "nil", count |-> 0, cause |-> NoErr]
ConfigError == [kind |-> "config", count |-> 0, cause |-> NoErr]
AttemptError(e) == [kind |-> "attempt", count |-> 0, cause |-> e]
Exhausted(n, e) == [kind |-> "exhausted", count |-> n, cause |-> e]

\* The locals of a call: the function called, the configuration the
\* credential check saw, the loop variable, the number of callOnce made, the
\* seconds slept, the outcome and the configuration of every callOnce, and
\* what the call returned.
NoCall ==
    [pc |-> "idle", fn |-> "none", checked |-> InitialConfig, attempt |-> 0,
     attempts |-> 0, waited |-> 0, outs |-> <<>>, sent |-> <<>>,
     text |-> "", err |-> NoError]

\* The fields of Config, and the fields each setter assigns, one assignment
\* statement per field; SetConfig assigns the whole struct.
Fields == {"Provider", "APIKey", "SecretKey", "BaseURL", "Model", "Timeout"}

SetterFields ==
    [SetDeepSeekAPIKey |-> {"Provider", "APIKey", "BaseURL", "Model"},
     SetQwenAPIKey |-> {"Provider", "APIKey", "SecretKey", "BaseURL", "Model"},
     SetCustomAPI |-> {"Provider", "APIKey", "BaseURL", "Model", "Timeout"},
     SetConfig |-> Fields]

\* The locals of a setter: the function, the fields it has still to assign
\* and the values it assigns.
NoSetter == [fn |-> "none", todo |-> {}, val |-> InitialConfig]

\* No trading-switch request was served yet.
NoRequest == [id |-> 0, v |-> FALSE, status |-> "none"]

\* ------------------------------------------------------------------ Init
Init ==
    /\ store \in [Ids -> {NoDoc, [params |-> "v1", enabled |-> TRUE]}]
    /\ traders = [i \in Ids |-> NoHandle]
    /\ mainPc = "boot"
    /\ h = [p \in Handlers |-> Idle]
    /\ newSwitch \in NewSwitches
    /\ nReloads = 0 /\ nEdits = 0 /\ nToggles = 0
    /\ toggleResp = NoRequest
    /\ defaultConfig = InitialConfig
    /\ mc = [w \in Workers |-> NoCall]
    /\ sc = [w \in Workers |-> NoSetter]
    /\ nSets = 0 /\ nCalls = 0

\* ------------------------------------------------------------------ main
\* What config.LoadConfig may return for the traders of the configuration
\* file: at least one trader, each with an accepted configuration.
FileTraders == [Ids -> {NoDoc, [params |-> "v1", enabled |-> TRUE]}] \ {EmptyStore}

\* Faulty variant of UseDB: an empty listing is used as well.
UseDB_AnyListing(dbOk, list) == dbOk

\* loadTradersFromDB and the choice of main between the store and the file:
\* the store is used when its listing succeeded and is not empty.
UseDB(dbOk, list) ==
    dbOk /\ DocIds(list) # {}

\* The first trader of cfg.Traders whose AddTrader fails (0 when none does):
\* the registry is empty and the identifiers are distinct, so only a rejected
\* configuration fails.
FirstBad(list) ==
    LET bad == {i \in DocIds(list) : ~AddTraderOK([j \in Ids |-> NoHandle], ToConfig(i, list[i]))}
    IN IF bad = {} THEN 0 ELSE Min(bad)

\* The registry built by the loop "for i, traderCfg := range cfg.Traders",
\* stopped at the first failure (log.Fatalf).
AddAll(list, g) ==
    LET fb == FirstBad(list)
    IN [i \in Ids |->
          IF list[i].params # "none" /\ (fb = 0 \/ i < fb)
          THEN AddTrader([j \in Ids |-> NoHandle], ToConfig(i, list[i]), g)[i]
          ELSE NoHandle]

\* The global parameters of cfg in main: those of the configuration file
\* when it was loaded; their zero values when the fleet comes from the store
\* and the file could not be loaded (only APIServerPort is set then).
MainGlobals(fileOk, fileGlobals) == IF fileOk THEN fileGlobals ELSE ZeroGlobals

\* Faulty variant of Boot: a fleet built from the configuration file is
\* written to the store.
Boot_SeedsStore ==
    /\ mainPc = "boot"
    /\ \E dbOk \in BOOLEAN, fileOk \in BOOLEAN, file \in FileTraders, g \in FileGlobals :
         LET list == IF UseDB(dbOk, store) THEN store ELSE file
         IN IF ~UseDB(dbOk, store) /\ ~fileOk
            THEN /\ mainPc' = "exited"
                 /\ traders' = traders
                 /\ store' = store
            ELSE /\ traders' = AddAll(list, MainGlobals(fileOk, g))
                 /\ mainPc' = IF FirstBad(list) = 0 THEN "serving" ELSE "initFailed"
                 /\ store' = list
    /\ UNCHANGED <<h, newSwitch, nReloads, nEdits, nToggles, toggleResp, mcpVars>>

\* main up to the start of the API server.
Boot ==
    /\ mainPc = "boot"
    /\ \E dbOk \in BOOLEAN, fileOk \in BOOLEAN, file \in FileTraders, g \in FileGlobals :
         LET list == IF UseDB(dbOk, store) THEN store ELSE file
         IN IF ~UseDB(dbOk, store) /\ ~fileOk
            THEN /\ mainPc' = "exited"
                 /\ traders' = traders
            ELSE /\ traders' = AddAll(list, MainGlobals(fileOk, g))
                 /\ mainPc' = IF FirstBad(list) = 0 THEN "serving" ELSE "initFailed"
    /\ UNCHANGED <<store, h, newSwitch, nReloads, nEdits, nToggles, toggleResp, mcpVars>>

\* traderManager.StartAll() in main, after the API server was started.
StartAll ==
    /\ mainPc = "serving"
    /\ traders' = StartAllTraders(traders)
    /\ mainPc' = "started"
    /\ h' = [q \in Handlers |->
               IF traders' # traders /\ h[q].pc \in InFlight
               THEN [h[q] EXCEPT !.dirty = TRUE] ELSE h[q]]
    /\ UNCHANGED <<store, newSwitch, nReloads, nEdits, nToggles, toggleResp, mcpVars>>

Serving == mainPc \in {"serving", "started", "stopping"}

\* The handlers in flight note a change of the registry made by main or by a
\* task.
NoteChange(reg2) ==
    [q \in Handlers |->
        IF reg2 # traders /\ h[q].pc \in InFlight
        THEN [h[q] EXCEPT !.dirty = TRUE] ELSE h[q]]

\* <-sigChan; traderManager.StopAll() in main: the stop requests.  The API
\* server goroutine is not stopped and goes on serving.
StopAllRequest ==
    /\ mainPc = "started"
    /\ traders' = StopAllTraders(traders)
    /\ mainPc' = "stopping"
    /\ h' = NoteChange(traders')
    /\ UNCHANGED <<store, newSwitch, nReloads, nEdits, nToggles, toggleResp, mcpVars>>

\* A task that was asked to stop ends at its next cycle boundary.
TaskStop ==
    /\ \E i \in Ids :
         /\ traders[i].stop /\ traders[i].live > 0
         /\ traders' = TaskEnds(traders, i)
    /\ h' = NoteChange(traders')
    /\ UNCHANGED <<store, mainPc, newSwitch, nReloads, nEdits, nToggles, toggleResp, mcpVars>>

\* StopAll returns once every task it asked to stop has acknowledged; main
\* then returns and the process exits.
StopAllReturn ==
    /\ mainPc = "stopping"
    /\ AllAcknowledged(traders)
    /\ mainPc' = "stopped"
    /\ UNCHANGED <<store, traders, h, newSwitch, nReloads, nEdits, nToggles, toggleResp, mcpVars>>

\* ------------------------------------------------------------------ store and switch handlers
\* handleAdminUpsertTrader: db.UpsertTrader of the request body.
handleAdminUpsertTrader ==
    /\ Serving /\ nEdits < MaxEdits
    /\ \E id \in Ids, td \in TraderDoc : store' = UpsertTrader(store, id, td)
    /\ nEdits' = nEdits + 1
    /\ UNCHANGED <<traders, mainPc, h, newSwitch, nReloads, nToggles, toggleResp, mcpVars>>

\* handleAdminDeleteTrader: db.DeleteTrader of the requested identifier.
handleAdminDeleteTrader ==
    /\ Serving /\ nEdits < MaxEdits
    /\ \E id \in Ids : store' = DeleteTrader(store, id)
    /\ nEdits' = nEdits + 1
    /\ UNCHANGED <<traders, mainPc, h, newSwitch, nReloads, nToggles, toggleResp, mcpVars>>

\* handleSetTradingEnabled: SetTradingEnabled on the registry only; 404 when
\* the identifier is not registered.
handleSetTradingEnabled ==
    /\ Serving /\ nToggles < MaxToggles
    /\ \E id \in Ids, v \in BOOLEAN :
         /\ traders' = SetTradingEnabled(traders, id, v)
         /\ h' = [q \in Handlers |->
                    IF traders' # traders /\ h[q].pc \in InFlight
                    THEN [h[q] EXCEPT !.dirty = TRUE] ELSE h[q]]
         /\ toggleResp' = [id |-> id, v |-> v,
                           status |-> IF SetTradingEnabledOK(traders, id)
                                      THEN "200" ELSE "404"]
    /\ nToggles' = nToggles + 1
    /\ UNCHANGED <<store, mainPc, newSwitch, nReloads, nEdits, mcpVars>>

\* ------------------------------------------------------------------ handleAdminReload
\* Faulty variant of toRemove: a registered trader whose stored record differs
\* from its live configuration is removed as well (update by remove and add).
toRemove_OnChange(r) ==
    (currentTraderIDs(r) \ dbTraderIDs(r)) \cup
    {i \in currentTraderIDs(r) \cap dbTraderIDs(r) :
        r.tradersFromDB[i].params # r.currentTraders[i].params}

\* "if !dbTraderIDs[traderID]" over currentTraderIDs: the traders to remove.
toRemove(r) == currentTraderIDs(r) \ dbTraderIDs(r)

\* "if !currentTraderIDs[traderID]" over tradersFromDB: the traders to add.
toAdd(r) == dbTraderIDs(r) \ currentTraderIDs(r)

\* The loop the pass is in once the removals pending are done.
AfterList(r) == IF r.remTodo # {} THEN "removing" ELSE "adding"

\* Faulty variant of ReloadFetchFail: err is not checked and the pass goes on
\* with the nil list.
ReloadFetchFail_ErrIgnored(p) ==
    /\ Serving /\ nReloads < MaxReloads
    /\ h[p].pc \in Ended \cup {"idle"}
    /\ h' = [h EXCEPT ![p] = [Idle EXCEPT !.pc = "fetched", !.fetchErr = TRUE,
                                          !.prev = Summary(h[p])]]
    /\ nReloads' = nReloads + 1
    /\ UNCHANGED <<store, traders, mainPc, newSwitch, nEdits, nToggles, toggleResp, mcpVars>>

\* db.ListTraders failed (Connect, Find, or Decode part-way through the
\* cursor): the handler answers 500 and returns.
ReloadFetchFail(p) ==
    /\ Serving /\ nReloads < MaxReloads
    /\ h[p].pc \in Ended \cup {"idle"}
    /\ h' = [h EXCEPT ![p] = [Idle EXCEPT !.pc = "failed", !.fetchErr = TRUE,
                                          !.prev = Summary(h[p]),
                                          !.regEnd = traders]]
    /\ nReloads' = nReloads + 1
    /\ UNCHANGED <<store, traders, mainPc, newSwitch, nEdits, nToggles, toggleResp, mcpVars>>

\* tradersFromDB, err := db.ListTraders(ctx) with err == nil.
ReloadFetch(p) ==
    /\ Serving /\ nReloads < MaxReloads
    /\ h[p].pc \in Ended \cup {"idle"}
    /\ h' = [h EXCEPT ![p] = [Idle EXCEPT !.pc = "fetched",
                                          !.tradersFromDB = store,
                                          !.prev = Summary(h[p])]]
    /\ nReloads' = nReloads + 1
    /\ UNCHANGED <<store, traders, mainPc, newSwitch, nEdits, nToggles, toggleResp, mcpVars>>

\* currentTraders := GetAllTraders(); currentTraderIDs and dbTraderIDs.
ReloadList(p) ==
    /\ h[p].pc = "fetched"
    /\ LET r1 == [h[p] EXCEPT !.currentTraders = GetAllTraders(traders)]
           r2 == [r1 EXCEPT !.remTodo = toRemove(r1), !.addTodo = toAdd(r1)]
       IN h' = [h EXCEPT ![p] = [r2 EXCEPT !.pc = AfterList(r2)]]
    /\ UNCHANGED <<store, traders, mainPc, newSwitch, nReloads, nEdits, nToggles, toggleResp, mcpVars>>

\* Faulty variant of RemoveStep: removedCount++ is reached on an error too.
RemoveStep_CountsFailure(r, id, ok) ==
    LET r1 == [r EXCEPT !.remTodo = @ \ {id}, !.remTried = @ \cup {id},
                        !.removedCount = @ + 1]
        r2 == IF ok THEN [r1 EXCEPT !.remOK = @ \cup {id}] ELSE r1
    IN [r2 EXCEPT !.pc = AfterList(r2)]

\* Faulty variant of RemoveStep: an error leaves the loop (break for continue).
RemoveStep_Break(r, id, ok) ==
    LET r1 == [r EXCEPT !.remTodo = IF ok THEN @ \ {id} ELSE {},
                        !.remTried = @ \cup {id}]
        r2 == IF ok THEN [r1 EXCEPT !.removedCount = @ + 1, !.remOK = @ \cup {id}]
              ELSE r1
    IN [r2 EXCEPT !.pc = AfterList(r2)]

\* Faulty variant of RemoveStep: currentTraders is the registry's own
\* collection, not a copy, and loses the identifier RemoveTrader evicted.
RemoveStep_Aliased(r, id, ok) ==
    LET r1 == [r EXCEPT !.remTodo = @ \ {id}, !.remTried = @ \cup {id}]
        r2 == IF ok THEN [r1 EXCEPT !.removedCount = @ + 1, !.remOK = @ \cup {id},
                                    !.currentTraders[id] = NoHandle]
              ELSE r1
    IN [r2 EXCEPT !.pc = AfterList(r2)]

\* The locals after RemoveTrader(id) returned: on an error the loop logs and
\* continues, otherwise removedCount++.
RemoveStep(r, id, ok) ==
    LET r1 == [r EXCEPT !.remTodo = @ \ {id}, !.remTried = @ \cup {id}]
        r2 == IF ok THEN [r1 EXCEPT !.removedCount = @ + 1, !.remOK = @ \cup {id}]
              ELSE r1
    IN [r2 EXCEPT !.pc = AfterList(r2)]

\* One iteration of "for traderID := range currentTraderIDs" that calls
\* RemoveTrader (map order: any remaining identifier).
ReloadRemove(p) ==
    /\ h[p].pc = "removing"
    /\ \E id \in h[p].remTodo :
         /\ traders' = IF RemoveTraderOK(traders, id) THEN RemoveTrader(traders, id)
                       ELSE traders
         /\ h' = SetH(p, RemoveStep(h[p], id, RemoveTraderOK(traders, id)), traders')
    /\ UNCHANGED <<store, mainPc, newSwitch, nReloads, nEdits, nToggles, toggleResp, mcpVars>>

\* globalConfig is assigned only "if len(currentTraders) > 0": otherwise it is
\* nil when globalConfig.CoinPoolAPIURL is evaluated.
globalConfigNil(r) == Cardinality(currentTraderIDs(r)) = 0

\* Faulty variant of AddStep: the continue after a failed AddTrader is
\* missing, the loop goes on to GetTrader.
AddStep_NoContinue(r, id, ok) ==
    IF ok THEN [r EXCEPT !.addTried = @ \cup {id}, !.addOK = @ \cup {id}, !.pending = id]
    ELSE [r EXCEPT !.addTried = @ \cup {id}, !.pending = id]

\* The locals after AddTrader(cfg, ...) returned for id: on an error the loop
\* logs and continues, otherwise it goes on to GetTrader.
AddStep(r, id, ok) ==
    IF ok THEN [r EXCEPT !.addTried = @ \cup {id}, !.addOK = @ \cup {id}, !.pending = id]
    ELSE [r EXCEPT !.addTried = @ \cup {id}, !.addTodo = @ \ {id}]

\* One iteration of "for _, traderDoc := range tradersFromDB" for a trader
\* not in currentTraderIDs (list order: ascending identifier): the arguments
\* of AddTrader are evaluated, which panics on a nil globalConfig, then
\* AddTrader is called.
ReloadAdd(p) ==
    /\ h[p].pc = "adding" /\ h[p].pending = 0 /\ h[p].addTodo # {}
    /\ LET r == h[p]
           id == Min(r.addTodo)
           cfg == ToConfig(id, r.tradersFromDB[id])
       IN IF globalConfigNil(r)
          THEN /\ traders' = traders
               /\ h' = [h EXCEPT ![p] = [r EXCEPT !.pc = "panicked", !.regEnd = traders]]
          ELSE /\ traders' = IF AddTraderOK(traders, cfg)
                              THEN AddTrader(traders, cfg, ReloadGlobals)
                             ELSE traders
               /\ h' = SetH(p, AddStep(r, id, AddTraderOK(traders, cfg)), traders')
    /\ UNCHANGED <<store, mainPc, newSwitch, nReloads, nEdits, nToggles, toggleResp, mcpVars>>

\* trader, err := GetTrader(traderID); if err == nil { go trader.Run(); addedCount++ }
StartStep(r, id, ok) ==
    LET r1 == [r EXCEPT !.pending = 0, !.addTodo = @ \ {id}]
    IN IF ok THEN [r1 EXCEPT !.addedCount = @ + 1, !.started = @ \cup {id},
                             !.launches = @ + 1]
       ELSE r1

ReloadStart(p) ==
    /\ h[p].pc = "adding" /\ h[p].pending # 0
    /\ LET id == h[p].pending
       IN /\ traders' = IF GetTraderOK(traders, id) THEN Run(traders, id) ELSE traders
          /\ h' = SetH(p, StartStep(h[p], id, GetTraderOK(traders, id)), traders')
    /\ UNCHANGED <<store, mainPc, newSwitch, nReloads, nEdits, nToggles, toggleResp, mcpVars>>

\* Faulty variant of dbEnabled: the switch loop re-applies the value the
\* handle had when the pass listed the registry.
dbEnabled_Live(r, id) == r.currentTraders[id].enabled

\* dbEnabled[td.TraderID] = td.Enabled
dbEnabled(r, id) == r.tradersFromDB[id].enabled

\* Faulty variant of SyncIds: the switch loop walks currentTraders, the list
\* taken at the start of the pass.
SyncIds_StartList(r, reg) == currentTraderIDs(r) \cap dbTraderIDs(r)

\* The identifiers the switch loop visits: "for _, t := range GetAllTraders()"
\* restricted by "if v, ok := dbEnabled[id]; ok".
SyncIds(r, reg) == LiveIds(GetAllTraders(reg)) \cap dbTraderIDs(r)

ReloadSyncList(p) ==
    /\ h[p].pc = "adding" /\ h[p].pending = 0 /\ h[p].addTodo = {}
    /\ h' = [h EXCEPT ![p] = [h[p] EXCEPT !.pc = "syncing",
                                          !.syncTodo = SyncIds(h[p], traders),
                                          !.regSync = LiveIds(traders)]]
    /\ UNCHANGED <<store, traders, mainPc, newSwitch, nReloads, nEdits, nToggles, toggleResp, mcpVars>>

\* _ = SetTradingEnabled(id, v); synced++
SyncStep(r, id) ==
    [r EXCEPT !.syncTodo = @ \ {id}, !.syncSet = @ \cup {id}, !.synced = @ + 1]

ReloadSync(p) ==
    /\ h[p].pc = "syncing"
    /\ \E id \in h[p].syncTodo :
         /\ traders' = SetTradingEnabled(traders, id, dbEnabled(h[p], id))
         /\ h' = SetH(p, SyncStep(h[p], id), traders')
    /\ UNCHANGED <<store, mainPc, newSwitch, nReloads, nEdits, nToggles, toggleResp, mcpVars>>

\* c.JSON(200, {added_count, removed_count, synced_switch}).
ReloadRespond(p) ==
    /\ h[p].pc = "syncing" /\ h[p].syncTodo = {}
    /\ h' = [h EXCEPT ![p] = [h[p] EXCEPT !.pc = "done", !.regEnd = traders]]
    /\ UNCHANGED <<store, traders, mainPc, newSwitch, nReloads, nEdits, nToggles, toggleResp, mcpVars>>

handleAdminReload(p) ==
    \/ ReloadFetchFail(p)
    \/ ReloadFetch(p)
    \/ ReloadList(p)
    \/ ReloadRemove(p)
    \/ ReloadAdd(p)
    \/ ReloadStart(p)
    \/ ReloadSyncList(p)
    \/ ReloadSync(p)
    \/ ReloadRespond(p)

\* No reload pass is being served.
Quiet == \A p \in Handlers : h[p].pc \in Ended \cup {"idle"}

\* main has returned from StartAll.
Started == mainPc = "started"

\* main over a configuration file whose global parameters are present and
\* equal to the ones handleAdminReload uses: the start-up of the
\* specifications that do not look at global parameters.
BootPlain ==
    /\ Boot
    /\ \A i \in Ids : traders'[i].params # "none" => traders'[i].globals = ReloadGlobals

\* Requests of the administrative page, which awaits each of its requests:
\* they arrive after StartAll, one reload pass at a time, a store edit between
\* two passes; a switch request may arrive at any step of a pass.
Next ==
    \/ BootPlain
    \/ StartAll
    \/ (Started /\ Quiet /\ handleAdminUpsertTrader)
    \/ (Started /\ Quiet /\ handleAdminDeleteTrader)
    \/ (Started /\ handleSetTradingEnabled)
    \/ (Started /\ ReloadFetchFail("h1"))
    \/ (Started /\ ReloadFetch("h1"))
    \/ (Started /\ ReloadList("h1"))
    \/ (Started /\ ReloadRemove("h1"))
    \/ (Started /\ ReloadAdd("h1"))
    \/ (Started /\ ReloadStart("h1"))
    \/ (Started /\ ReloadSyncList("h1"))
    \/ (Started /\ ReloadSync("h1"))
    \/ (Started /\ ReloadRespond("h1"))

Spec == Init /\ [][Next]_vars

\* Reload requests served by two goroutines at once: the steps of the two
\* passes interleave with each other and with a deletion from the store.
NextConc ==
    \/ BootPlain
    \/ StartAll
    \/ (Started /\ handleAdminDeleteTrader)
    \/ \E p \in Handlers : Started /\ nReloads < MaxConcReloads /\ ReloadFetchFail(p)
    \/ \E p \in Handlers : Started /\ nReloads < MaxConcReloads /\ ReloadFetch(p)
    \/ \E p \in Handlers : Started /\ ReloadList(p)
    \/ \E p \in Handlers : Started /\ ReloadRemove(p)
    \/ \E p \in Handlers : Started /\ ReloadAdd(p)
    \/ \E p \in Handlers : Started /\ ReloadStart(p)
    \/ \E p \in Handlers : Started /\ ReloadSyncList(p)
    \/ \E p \in Handlers : Started /\ ReloadSync(p)
    \/ \E p \in Handlers : Started /\ ReloadRespond(p)

SpecConc == Init /\ [][NextConc]_vars

\* main is past StartAll and has not returned from StopAll.
Up == mainPc \in {"started", "stopping"}

\* The shutdown of main racing with one reload pass: the API server is still
\* serving while StopAll runs.
NextStop ==
    \/ BootPlain
    \/ StartAll
    \/ StopAllRequest
    \/ TaskStop
    \/ StopAllReturn
    \/ (Up /\ ReloadFetchFail("h1"))
    \/ (Up /\ ReloadFetch("h1"))
    \/ (Up /\ ReloadList("h1"))
    \/ (Up /\ ReloadRemove("h1"))
    \/ (Up /\ ReloadAdd("h1"))
    \/ (Up /\ ReloadStart("h1"))
    \/ (Up /\ ReloadSyncList("h1"))
    \/ (Up /\ ReloadSync("h1"))
    \/ (Up /\ ReloadRespond("h1"))

SpecStop == Init /\ [][NextStop]_vars

\* The API server goroutine is started before main calls StartAll: a reload
\* request may be served before, while or after StartAll runs.
NextStart ==
    \/ Boot
    \/ StartAll
    \/ ReloadFetchFail("h1")
    \/ ReloadFetch("h1")
    \/ ReloadList("h1")
    \/ ReloadRemove("h1")
    \/ ReloadAdd("h1")
    \/ ReloadStart("h1")
    \/ ReloadSyncList("h1")
    \/ ReloadSync("h1")
    \/ ReloadRespond("h1")

SpecStart == Init /\ [][NextStart]_vars

\* The start-up of main over every store it may find: a record of the store
\* may carry a configuration AddTrader rejects.
InitBoot ==
    /\ store \in [Ids -> {NoDoc, [params |-> "v1", enabled |-> TRUE],
                           [params |-> "bad", enabled |-> TRUE]}]
    /\ traders = [i \in Ids |-> NoHandle]
    /\ mainPc = "boot"
    /\ h = [p \in Handlers |-> Idle]
    /\ newSwitch \in NewSwitches
    /\ nReloads = 0 /\ nEdits = 0 /\ nToggles = 0
    /\ toggleResp = NoRequest
    /\ defaultConfig = InitialConfig
    /\ mc = [w \in Workers |-> NoCall]
    /\ sc = [w \in Workers |-> NoSetter]
    /\ nSets = 0 /\ nCalls = 0

NextBoot ==
    \/ Boot
    \/ StartAll

SpecBoot == InitBoot /\ [][NextBoot]_vars

\* ------------------------------------------------------------------ mcp: setters and calls
SetDeepSeekAPIKey(cfg, apiKey) ==
    [cfg EXCEPT !.Provider = "deepseek", !.APIKey = apiKey,
                !.BaseURL = "https://api.deepseek.com/v1", !.Model = "deepseek-chat"]

SetQwenAPIKey(cfg, apiKey, secretKey) ==
    [cfg EXCEPT !.Provider = "qwen", !.APIKey = apiKey, !.SecretKey = secretKey,
                !.BaseURL = "https://dashscope.aliyuncs.com/compatible-mode/v1",
                !.Model = "qwen-plus"]

SetCustomAPI(cfg, apiURL, apiKey, modelName) ==
    [cfg EXCEPT !.Provider = "custom", !.APIKey = apiKey, !.BaseURL = apiURL,
                !.Model = modelName, !.Timeout = DefaultTimeout]

\* SetConfig: a zero Timeout becomes 30 s, then the default is replaced.
SetConfig(config) ==
    IF config.Timeout = 0 THEN [config EXCEPT !.Timeout = SetConfigTimeout] ELSE config

\* A setter called by some goroutine.
CallSetDeepSeekAPIKey ==
    /\ nSets < MaxSets
    /\ \E k \in Keys : defaultConfig' = SetDeepSeekAPIKey(defaultConfig, k)
    /\ nSets' = nSets + 1
    /\ UNCHANGED <<regVars, sc, mc, nCalls>>

CallSetQwenAPIKey ==
    /\ nSets < MaxSets
    /\ \E k \in Keys : defaultConfig' = SetQwenAPIKey(defaultConfig, k, "s1")
    /\ nSets' = nSets + 1
    /\ UNCHANGED <<regVars, sc, mc, nCalls>>

CallSetCustomAPI ==
    /\ nSets < MaxSets
    /\ \E k \in Keys : defaultConfig' = SetCustomAPI(defaultConfig, "u1", k, "m1")
    /\ nSets' = nSets + 1
    /\ UNCHANGED <<regVars, sc, mc, nCalls>>

CallSetConfig ==
    /\ nSets < MaxSets
    /\ \E c \in CallerConfigs : defaultConfig' = SetConfig(c)
    /\ nSets' = nSets + 1
    /\ UNCHANGED <<regVars, sc, mc, nCalls>>

\* Faulty variant of CheckKey: the key is not checked and the loop is entered.
CheckKey_NoCheck(cfg) ==
    [NoCall EXCEPT !.pc = "attempt", !.fn = "CallWithMessages",
                   !.checked = cfg, !.attempt = 1]

\* CallWithMessages up to the loop: "if defaultConfig.APIKey == "" { return }".
CheckKey(cfg) ==
    IF cfg.APIKey = ""
    THEN [NoCall EXCEPT !.pc = "returned", !.fn = "CallWithMessages",
                        !.checked = cfg, !.err = ConfigError]
    ELSE [NoCall EXCEPT !.pc = "attempt", !.fn = "CallWithMessages",
                        !.checked = cfg, !.attempt = 1]

CallStart(w) ==
    /\ mc[w].pc \in {"idle", "returned"} /\ nCalls < MaxCalls
    /\ mc' = [mc EXCEPT ![w] = CheckKey(defaultConfig)]
    /\ nCalls' = nCalls + 1
    /\ UNCHANGED <<regVars, sc, defaultConfig, nSets>>

\* Faulty variant of AfterAttempt: the loop sleeps and goes on after the
\* attempt numbered maxRetries too (attempt <= maxRetries).
AfterAttempt_OneMore(c, cfg, o) ==
    LET c1 == [c EXCEPT !.attempts = @ + 1, !.outs = Append(@, o),
                        !.sent = Append(@, cfg)]
    IN IF o.err = NoErr
       THEN [c1 EXCEPT !.pc = "returned", !.text = o.text, !.err = NoError]
       ELSE IF ~isRetryableError(o.err)
       THEN [c1 EXCEPT !.pc = "returned", !.err = AttemptError(o.err)]
       ELSE IF c.attempt <= maxRetries
       THEN [c1 EXCEPT !.pc = "sleeping"]
       ELSE [c1 EXCEPT !.pc = "returned", !.err = Exhausted(maxRetries, o.err)]

\* Faulty variant of AfterAttempt: isRetryableError is not consulted, every
\* error is retried and the last one is wrapped.
AfterAttempt_RetryAll(c, cfg, o) ==
    LET c1 == [c EXCEPT !.attempts = @ + 1, !.outs = Append(@, o),
                        !.sent = Append(@, cfg)]
    IN IF o.err = NoErr
       THEN [c1 EXCEPT !.pc = "returned", !.text = o.text, !.err = NoError]
       ELSE IF c.attempt < maxRetries
       THEN [c1 EXCEPT !.pc = "sleeping"]
       ELSE [c1 EXCEPT !.pc = "returned", !.err = Exhausted(maxRetries, o.err)]

\* Faulty variant of AfterAttempt: a success after a retry returns the text
\* together with lastErr, the error of the attempt before.
AfterAttempt_KeepsLastErr(c, cfg, o) ==
    LET c1 == [c EXCEPT !.attempts = @ + 1, !.outs = Append(@, o),
                        !.sent = Append(@, cfg)]
    IN IF o.err = NoErr
       THEN [c1 EXCEPT !.pc = "returned", !.text = o.text,
                       !.err = IF c.outs = <<>> THEN NoError
                               ELSE AttemptError(c.outs[Len(c.outs)].err)]
       ELSE IF ~isRetryableError(o.err)
       THEN [c1 EXCEPT !.pc = "returned", !.err = AttemptError(o.err)]
       ELSE IF c.attempt < maxRetries
       THEN [c1 EXCEPT !.pc = "sleeping"]
       ELSE [c1 EXCEPT !.pc = "returned", !.err = Exhausted(maxRetries, o.err)]

\* The locals after callOnce(cfg, ...) returned o in the loop body: return the
\* result, return a non-retryable error as it is, sleep before the next
\* attempt, or leave the loop after the last one and return the wrapped error.
AfterAttempt(c, cfg, o) ==
    LET c1 == [c EXCEPT !.attempts = @ + 1, !.outs = Append(@, o),
                        !.sent = Append(@, cfg)]
    IN IF o.err = NoErr
       THEN [c1 EXCEPT !.pc = "returned", !.text = o.text, !.err = NoError]
       ELSE IF ~isRetryableError(o.err)
       THEN [c1 EXCEPT !.pc = "returned", !.err = AttemptError(o.err)]
       ELSE IF c.attempt < maxRetries
       THEN [c1 EXCEPT !.pc = "sleeping"]
       ELSE [c1 EXCEPT !.pc = "returned", !.err = Exhausted(maxRetries, o.err)]

\* Faulty variant of CallAttempt: callOnce is given the configuration the
\* calling worker set, as if each worker had a default of its own.
CallAttempt_OwnConfig(w) ==
    /\ mc[w].pc = "attempt"
    /\ \E o \in Outcomes : mc' = [mc EXCEPT ![w] = AfterAttempt(mc[w], sc[w].val, o)]
    /\ UNCHANGED <<regVars, sc, defaultConfig, nSets, nCalls>>

\* result, err := callOnce(defaultConfig, systemPrompt, userPrompt)
CallAttempt(w) ==
    /\ mc[w].pc = "attempt"
    /\ \E o \in Outcomes : mc' = [mc EXCEPT ![w] = AfterAttempt(mc[w], defaultConfig, o)]
    /\ UNCHANGED <<regVars, sc, defaultConfig, nSets, nCalls>>

\* Faulty variant of AfterSleep: the wait does not grow with the attempt
\* (2 * time.Second).
AfterSleep_FixedWait(c) ==
    [c EXCEPT !.pc = "attempt", !.waited = @ + WaitUnit, !.attempt = @ + 1]

\* time.Sleep(time.Duration(attempt) * 2 * time.Second); attempt++
AfterSleep(c) ==
    [c EXCEPT !.pc = "attempt", !.waited = @ + c.attempt * WaitUnit,
              !.attempt = @ + 1]

CallWake(w) ==
    /\ mc[w].pc = "sleeping"
    /\ mc' = [mc EXCEPT ![w] = AfterSleep(mc[w])]
    /\ UNCHANGED <<regVars, sc, defaultConfig, nSets, nCalls>>

\* CallWithMessagesWithConfig(cfg, ...) up to callOnce: cfg is the caller's
\* copy of the configuration, "if cfg.APIKey == "" { return }".
WithConfigCheck(cfg) ==
    IF cfg.APIKey = ""
    THEN [NoCall EXCEPT !.pc = "returned", !.fn = "CallWithMessagesWithConfig",
                        !.checked = cfg, !.err = ConfigError]
    ELSE [NoCall EXCEPT !.pc = "once", !.fn = "CallWithMessagesWithConfig",
                        !.checked = cfg, !.attempt = 1]

CallWithMessagesWithConfig(w) ==
    /\ mc[w].pc \in {"idle", "returned"} /\ nCalls < MaxCalls
    /\ \E cfg \in CallerConfigs : mc' = [mc EXCEPT ![w] = WithConfigCheck(cfg)]
    /\ nCalls' = nCalls + 1
    /\ UNCHANGED <<regVars, sc, defaultConfig, nSets>>

\* Faulty variant of WithConfigOnce: callOnce is given the shared default.
WithConfigOnce_SharedDefault(c, o) ==
    [c EXCEPT !.pc = "returned", !.attempts = 1, !.outs = <<o>>,
              !.sent = <<defaultConfig>>, !.text = o.text,
              !.err = IF o.err = NoErr THEN NoError ELSE AttemptError(o.err)]

\* return callOnce(cfg, systemPrompt, userPrompt): one callOnce with the
\* caller's copy, its result returned as it is.
WithConfigOnce(c, o) ==
    [c EXCEPT !.pc = "returned", !.attempts = 1, !.outs = <<o>>,
              !.sent = <<c.checked>>, !.text = o.text,
              !.err = IF o.err = NoErr THEN NoError ELSE AttemptError(o.err)]

CallOnceWithConfig(w) ==
    /\ mc[w].pc = "once"
    /\ \E o \in Outcomes : mc' = [mc EXCEPT ![w] = WithConfigOnce(mc[w], o)]
    /\ UNCHANGED <<regVars, sc, defaultConfig, nSets, nCalls>>

\* One worker calling the client while the default configuration is set.
NextMcp ==
    \/ CallSetDeepSeekAPIKey
    \/ CallSetQwenAPIKey
    \/ CallSetCustomAPI
    \/ CallSetConfig
    \/ CallStart("w1")
    \/ CallAttempt("w1")
    \/ CallWake("w1")
    \/ CallWithMessagesWithConfig("w1")
    \/ CallOnceWithConfig("w1")

\* The client does not touch the registry: one initial registry state is
\* enough.
InitMcp == Init /\ store = EmptyStore /\ newSwitch = "cfg"

SpecMcp == InitMcp /\ [][NextMcp]_vars

\* ------------------------------------------------------------------ mcp: setters racing with calls
\* defaultConfig is a package variable written and read with no
\* synchronization.  A setter is a sequence of assignments, one per field,
\* and the assignments of setters run by different goroutines interleave in
\* any order; a read sees, field by field, the last value assigned.  A field
\* is the unit of the model: the words of one string are not told apart.
SetterCall(fn, val) == [fn |-> fn, todo |-> SetterFields[fn], val |-> val]

\* The worker is between two calls of the package.
Free(w) == sc[w].todo = {} /\ mc[w].pc \in {"idle", "returned"}

\* A worker enters a setter.
SetterBegin(w, s) ==
    /\ Free(w) /\ nSets < MaxSets
    /\ sc' = [sc EXCEPT ![w] = s]
    /\ nSets' = nSets + 1
    /\ UNCHANGED <<regVars, defaultConfig, mc, nCalls>>

\* One assignment "defaultConfig.F = ..." of the setter a worker is in.
SetterWrite(w) ==
    /\ \E f \in sc[w].todo :
         /\ defaultConfig' = [defaultConfig EXCEPT ![f] = sc[w].val[f]]
         /\ sc' = [sc EXCEPT ![w].todo = @ \ {f}]
    /\ UNCHANGED <<regVars, mc, nSets, nCalls>>

\* The setter each of two workers calls before it uses the client: one
\* worker is configured for DeepSeek, the other for Qwen, for a custom
\* endpoint or by SetConfig.
RaceSetters ==
    [w \in Workers |->
        IF w = "w1"
        THEN {SetterCall("SetDeepSeekAPIKey", SetDeepSeekAPIKey(InitialConfig, "k1"))}
        ELSE {SetterCall("SetQwenAPIKey", SetQwenAPIKey(InitialConfig, "k2", "s1")),
              SetterCall("SetCustomAPI", SetCustomAPI(InitialConfig, "u1", "k2", "m1")),
              SetterCall("SetConfig",
                         SetConfig([Provider |-> "custom", APIKey |-> "k2",
                                    SecretKey |-> "", BaseURL |-> "u2",
                                    Model |-> "m2", Timeout |-> 0]))}]

\* The results of callOnce in the race: the text, or a transient failure.
RaceOutcomes ==
    {[text |-> "content", err |-> NoErr],
     [text |-> "", err |-> <<"send request failed: ", "EOF">>]}

\* The result of the last callOnce of a call.
LastOut(c) == c.outs[Len(c.outs)]

\* The worker has called its setter and the setter has returned.
Configured(w) == sc[w].fn # "none" /\ sc[w].todo = {}

\* Two workers, each calling one setter and then CallWithMessages, with no
\* synchronization between them; the first also calls
\* CallWithMessagesWithConfig, before or after its setter.
NextRace ==
    \/ \E w \in Workers : \E s \in RaceSetters[w] : sc[w].fn = "none" /\ SetterBegin(w, s)
    \/ \E w \in Workers : SetterWrite(w)
    \/ \E w \in Workers : Configured(w) /\ CallStart(w)
    \/ \E w \in Workers : CallAttempt(w) /\ LastOut(mc'[w]) \in RaceOutcomes
    \/ \E w \in Workers : CallWake(w)
    \/ (Free("w1") /\ CallWithMessagesWithConfig("w1"))
    \/ (CallOnceWithConfig("w1") /\ LastOut(mc'["w1"]) \in RaceOutcomes)

SpecRace == InitMcp /\ [][NextRace]_vars

\* ------------------------------------------------------------------ properties
\* A pass that obtained its snapshot and ended, by its response or by a panic.
PassEnded(r) == r.pc \in {"done", "panicked"}

\* C1: set-diff correctness of one pass.  For every desired set D and live
\* set L (L empty included), after a pass that fetched its snapshot, in which
\* no RemoveTrader / AddTrader failed and no other goroutine changed the
\* registry, the identifiers of the registry are exactly D.
C1_SetDiff ==
    \A p \in Handlers :
        (PassEnded(h[p]) /\ NoFailure(h[p]) /\ ~h[p].dirty)
            => LiveIds(h[p].regEnd) = dbTraderIDs(h[p])

\* C2: once the snapshot was fetched, a pass runs to completion and returns
\* its three counts: it never ends otherwise than by the 200 response.
C2_AlwaysCounts ==
    \A p \in Handlers :
        (h[p].pc \in Ended /\ ~h[p].fetchErr) => h[p].pc = "done"

\* C3: when db.ListTraders fails the pass reports the error and stops: it
\* calls no RemoveTrader, AddTrader, SetTradingEnabled and starts no task, and
\* the step that serves the failed request leaves the registry (identifiers,
\* trading switches, launched tasks) as it found it.
C3_FetchFailureAborts ==
    /\ [](\A p \in Handlers :
            h[p].fetchErr =>
                /\ h[p].pc = "failed"
                /\ h[p].remTried = {} /\ h[p].addTried = {}
                /\ h[p].started = {} /\ h[p].launches = 0 /\ h[p].syncSet = {}
                /\ h[p].removedCount = 0 /\ h[p].addedCount = 0 /\ h[p].synced = 0)
    /\ [][\A p \in Handlers :
            (h'[p].fetchErr /\ h'[p] # h[p]) => traders' = traders]_vars

C3_Witness ==
    \E p \in Handlers :
        /\ h[p].fetchErr /\ h[p].pc = "failed"
        /\ LiveIds(h[p].regEnd) # {}
        /\ LiveIds(h[p].regEnd) # DocIds(store)
        /\ traders = h[p].regEnd

C6_SwitchFollowsSnapshot ==
    \A p \in Handlers :
        (h[p].pc = "done" /\ ~h[p].dirty) =>
            \A i \in LiveIds(h[p].regEnd) \cap dbTraderIDs(h[p]) :
                h[p].regEnd[i].enabled = h[p].tradersFromDB[i].enabled

\* A switch set through handleSetTradingEnabled, the store untouched, is
\* overwritten by the pass.
C6_Witness ==
    \E p \in Handlers :
        /\ h[p].pc = "done" /\ ~h[p].dirty
        /\ nEdits = 0 /\ nToggles = 1
        /\ \E i \in currentTraderIDs(h[p]) \cap dbTraderIDs(h[p]) :
             /\ h[p].currentTraders[i].enabled # h[p].tradersFromDB[i].enabled
             /\ h[p].regEnd[i].enabled = h[p].tradersFromDB[i].enabled

\* The pass of r follows a pass of the same snapshot that was free of
\* failures and of interference, with the registry's identifiers untouched in
\* between.
SecondOfTwo(r) ==
    /\ PassEnded(r) /\ NoFailure(r) /\ ~r.dirty
    /\ r.prev.status \in {"done", "panicked"} /\ r.prev.clean
    /\ r.prev.snap = r.tradersFromDB
    /\ r.prev.regAfter = currentTraderIDs(r)

\* C7: idempotence.  The second of two passes run one after the other with
\* an unchanged snapshot, no failure and no other mutation reports added = 0
\* and removed = 0 and leaves the identifiers of the registry unchanged.
C7_Idempotence ==
    \A p \in Handlers :
        SecondOfTwo(h[p]) =>
            /\ h[p].pc = "done"
            /\ h[p].addedCount = 0 /\ h[p].removedCount = 0
            /\ LiveIds(h[p].regEnd) = currentTraderIDs(h[p])

\* C8: no update.  For an identifier in both L and D the pass never calls
\* RemoveTrader or AddTrader and never launches a task, and unless another
\* goroutine interferes the handle keeps its configuration and its task,
\* also when the stored record differs from the live configuration.
C8_NoUpdate ==
    \A p \in Handlers :
        \A i \in currentTraderIDs(h[p]) \cap dbTraderIDs(h[p]) :
            /\ i \notin h[p].remTried
            /\ i \notin h[p].addTried
            /\ i \notin h[p].started
            /\ (h[p].pc \in InFlight /\ ~h[p].dirty) =>
                 /\ traders[i].params = h[p].currentTraders[i].params
                 /\ traders[i].runs = h[p].currentTraders[i].runs
            /\ (h[p].pc = "done" /\ ~h[p].dirty) =>
                 /\ h[p].regEnd[i].params = h[p].currentTraders[i].params
                 /\ h[p].regEnd[i].runs = h[p].currentTraders[i].runs

C8_Witness ==
    \E p \in Handlers :
        /\ h[p].pc = "done" /\ ~h[p].dirty
        /\ \E i \in currentTraderIDs(h[p]) \cap dbTraderIDs(h[p]) :
             /\ h[p].tradersFromDB[i].params \in ValidParams
             /\ h[p].tradersFromDB[i].params # h[p].currentTraders[i].params
             /\ h[p].regEnd[i].params = h[p].currentTraders[i].params
             /\ h[p].regEnd[i].enabled # h[p].currentTraders[i].enabled

\* C9: partial-failure tolerance.  A failed RemoveTrader or AddTrader does not
\* end the pass: every identifier of L-D is still passed to RemoveTrader,
\* every identifier of D-L to AddTrader, and the switch loop runs.
C9_PartialFailure ==
    \A p \in Handlers :
        /\ (h[p].remTried # h[p].remOK \/ h[p].addTried # h[p].addOK)
             => h[p].pc \in InFlight \cup {"done"}
        /\ (h[p].pc \in InFlight \cup {"done"}) =>
             /\ h[p].remTodo \cup h[p].remTried = toRemove(h[p])
             /\ h[p].addTodo \cup h[p].addTried = toAdd(h[p])
             /\ h[p].pc \in {"syncing", "done"} =>
                  /\ h[p].remTried = toRemove(h[p])
                  /\ h[p].addTried = toAdd(h[p])
             /\ h[p].pc = "done" =>
                  h[p].syncSet = h[p].regSync \cap dbTraderIDs(h[p])

C9_Witness ==
    \E p \in Handlers :
        /\ h[p].pc = "done"
        /\ h[p].remTried \ h[p].remOK # {}
        /\ h[p].remOK # {}
        /\ h[p].addTried \ h[p].addOK # {}
        /\ h[p].syncSet # {}

\* C10: every identifier counted as added was registered by AddTrader and
\* then had its task launched once by the pass; an identifier whose
\* AddTrader failed is neither started nor counted.
C10_AddedMeansStarted ==
    \A p \in Handlers :
        /\ h[p].addedCount = Cardinality(h[p].started)
        /\ h[p].launches = Cardinality(h[p].started)
        /\ h[p].started \subseteq h[p].addOK
        /\ h[p].pending # 0 => h[p].pending \in h[p].addOK
        /\ (h[p].pc = "done" /\ ~h[p].dirty) =>
             \A i \in h[p].started : h[p].regEnd[i].runs = 1

C10_Witness ==
    \E p \in Handlers :
        /\ h[p].pc = "done"
        /\ h[p].started # {}
        /\ h[p].addTried \ h[p].addOK # {}
        /\ h[p].addedCount = Cardinality(h[p].addOK)
        /\ \A i \in h[p].started : traders[i].runs = 1

\* An identifier is registered in a registry.
Registered(reg, i) == reg[i].params # "none"

\* C11: registry uniqueness.  The registry maps an identifier to at most one
\* handle, and no step replaces a registered handle by another: its
\* configuration stays and its launched task is not forgotten.  An AddTrader
\* for an identifier already registered fails (it is not counted among the
\* successful adds) and leaves the registry as it was.
C11_RegistryUniqueness ==
    [][\A i \in Ids :
         /\ (Registered(traders, i) /\ Registered(traders', i)) =>
               /\ traders'[i].params = traders[i].params
               /\ traders'[i].runs >= traders[i].runs
         /\ \A p \in Handlers :
               (i \in h'[p].addTried \ h[p].addTried /\ Registered(traders, i)) =>
                   /\ i \notin h'[p].addOK
                   /\ traders' = traders]_vars

\* A pass was refused the AddTrader of an identifier that an overlapping pass
\* had registered and started; the handle is the one of the other pass.
C11_Witness ==
    \E p \in Handlers, q \in Handlers, i \in Ids :
        /\ p # q
        /\ i \in h[p].addTried \ h[p].addOK
        /\ i \in h[q].started
        /\ Registered(traders, i) /\ traders[i].runs = 1

\* C12: removal finality.  A RemoveTrader that succeeds leaves the identifier
\* unregistered (GetTrader fails) and free for AddTrader; the identifier
\* becomes registered again only by a successful AddTrader, and an AddTrader
\* of an accepted configuration for an unregistered identifier succeeds.  A
\* RemoveTrader of an unregistered identifier fails and changes nothing.
C12_RemovalFinality ==
    [][\A i \in Ids :
         /\ \A p \in Handlers :
               /\ (i \in h'[p].remOK \ h[p].remOK) =>
                     /\ Registered(traders, i)
                     /\ ~GetTraderOK(traders', i)
                     /\ \A v \in ValidParams :
                          AddTraderOK(traders', [ID |-> i, params |-> v, Enabled |-> TRUE])
               /\ (i \in h'[p].remTried \ h[p].remTried /\ i \notin h'[p].remOK) =>
                     /\ ~Registered(traders, i)
                     /\ traders' = traders
               /\ (/\ i \in h'[p].addTried \ h[p].addTried
                   /\ ~Registered(traders, i)
                   /\ h[p].tradersFromDB[i].params \in ValidParams) =>
                     /\ i \in h'[p].addOK
                     /\ Registered(traders', i)
         /\ (~Registered(traders, i) /\ Registered(traders', i)) =>
               \/ mainPc = "boot"
               \/ \E p \in Handlers : i \in h'[p].addOK \ h[p].addOK]_vars

\* One pass removed an identifier, an overlapping pass with an older snapshot
\* added it again afterwards, and a second RemoveTrader found it absent.
C12_Witness ==
    \E p \in Handlers, q \in Handlers, i \in Ids :
        /\ p # q
        /\ i \in h[p].remOK
        /\ i \in h[q].addOK
        /\ Registered(traders, i)
        /\ \E j \in Ids : j \in h[q].remTried \ h[q].remOK

\* C14 as stated: when StopAll has returned no worker task is running.
C14_StopAllLeavesNoTask ==
    mainPc = "stopped" => \A i \in Ids : traders[i].live = 0

\* C15: SetTradingEnabled(id, v).  For an unregistered id the request is
\* answered NotFound (404) and the registry is unchanged; for a registered id
\* the only change is that handle's switch, now v: its configuration, its
\* task and every other handle stay.  The same holds for each call made by
\* the switch loop of a reload pass, so the switch of one handle is set
\* repeatedly during its lifetime.
C15_SetEnabledFrame ==
    [][/\ (nToggles' # nToggles) =>
             LET q == toggleResp'
             IN /\ (q.status = "404") <=> ~Registered(traders, q.id)
                /\ (q.status = "200") <=> Registered(traders, q.id)
                /\ q.status = "404" => traders' = traders
                /\ q.status = "200" =>
                      traders' = [traders EXCEPT ![q.id].enabled = q.v]
       /\ \A p \in Handlers, i \in Ids :
             (i \in h'[p].syncSet \ h[p].syncSet) =>
                 traders' = IF Registered(traders, i)
                            THEN [traders EXCEPT
                                     ![i].enabled = h[p].tradersFromDB[i].enabled]
                            ELSE traders]_vars

\* The switch of a started handle was set to FALSE by a request and back to
\* TRUE by the next reload pass; the handle still has its one task.
C15_Witness ==
    \E i \in Ids :
        /\ toggleResp = [id |-> i, v |-> FALSE, status |-> "200"]
        /\ h["h1"].pc = "done" /\ i \in h["h1"].syncSet
        /\ ~h["h1"].currentTraders[i].enabled
        /\ traders[i].enabled /\ traders[i].runs = 1 /\ traders[i].live = 1

C17_AddDoesNotStart ==
    /\ [](mainPc = "serving" =>
            /\ LiveIds(traders) # {}
            /\ \A i \in LiveIds(traders) : traders[i].runs = 0 /\ traders[i].live = 0)
    /\ [][\A i \in Ids :
            /\ \A p \in Handlers :
                  (i \in h'[p].addOK \ h[p].addOK) =>
                      /\ GetTraderOK(traders', i)
                      /\ i \in LiveIds(GetAllTraders(traders'))
                      /\ traders'[i].runs = 0 /\ traders'[i].live = 0
                      /\ i \notin h'[p].started
                      /\ h'[p].addedCount = h[p].addedCount
            /\ (traders'[i].live > traders[i].live) =>
                  \/ (mainPc = "serving" /\ mainPc' = "started")
                  \/ \E p \in Handlers :
                        /\ i \in h'[p].started \ h[p].started
                        /\ i \in h[p].addOK]_vars

\* A pass between its AddTrader and its start: the handle is registered and
\* has no task.
C17_Witness ==
    \E p \in Handlers :
        /\ h[p].pc = "adding" /\ h[p].pending # 0
        /\ GetTraderOK(traders, h[p].pending)
        /\ traders[h[p].pending].runs = 0
        /\ traders[h[p].pending].live = 0

\* The callOnce numbered k of call c failed with a retryable error.
FailedRetryable(c, k) == c.outs[k].err # NoErr /\ isRetryableError(c.outs[k].err)

\* The callOnce numbered k of call c failed with an error that is not retried.
FailedForGood(c, k) == c.outs[k].err # NoErr /\ ~isRetryableError(c.outs[k].err)

\* The seconds slept before the attempt numbered k: 2 s after the first
\* failure, 4 s after the second.
WaitedBefore(k) == WaitUnit * (((k - 1) * k) \div 2)

\* C18: retry ceiling.  CallWithMessages never makes a fourth callOnce; a
\* call that returned after nothing but retryable failures made exactly 3
\* and returned the error that wraps the error of the third with the count 3;
\* the wrapped error is returned in no other case.
C18_RetryCeiling ==
    \A w \in Workers :
        LET c == mc[w]
        IN c.fn = "CallWithMessages" =>
            /\ c.attempts <= maxRetries /\ Len(c.outs) = c.attempts
            /\ (/\ c.pc = "returned" /\ c.attempts > 0
                /\ \A k \in 1..c.attempts : FailedRetryable(c, k)) =>
                  /\ c.attempts = maxRetries
                  /\ c.err = Exhausted(maxRetries, c.outs[maxRetries].err)
                  /\ c.text = ""
            /\ c.err.kind = "exhausted" =>
                  /\ c.pc = "returned" /\ c.attempts = maxRetries
                  /\ \A k \in 1..c.attempts : FailedRetryable(c, k)

\* Three retryable failures, the third different from the first: the error
\* returned wraps the third.
C18_Witness ==
    LET c == mc["w1"]
    IN /\ c.fn = "CallWithMessages" /\ c.pc = "returned" /\ c.attempts = 3
       /\ \A k \in 1..3 : FailedRetryable(c, k)
       /\ c.outs[1].err # c.outs[3].err
       /\ c.err = Exhausted(3, c.outs[3].err)
       /\ c.waited = 6

\* C19: non-retryable short-circuit.  As soon as a callOnce of
\* CallWithMessages fails with an error that is not retryable the call has
\* returned: that callOnce, numbered k, is the last, the error is returned as
\* it is (not wrapped), and the call slept only before its earlier retries,
\* not after the failure; for k = 1 one callOnce was made and none slept.
C19_NonRetryableShortCircuit ==
    \A w \in Workers :
        LET c == mc[w]
            k == Len(c.outs)
        IN (c.fn = "CallWithMessages" /\ k > 0 /\ FailedForGood(c, k)) =>
            /\ c.pc = "returned"
            /\ c.attempts = k
            /\ c.err = AttemptError(c.outs[k].err)
            /\ c.text = ""
            /\ c.waited = WaitedBefore(k)
            /\ k = 1 => c.waited = 0

\* The third callOnce failed for good after two retryable failures.
C19_Witness ==
    LET c == mc["w1"]
    IN /\ c.fn = "CallWithMessages" /\ c.pc = "returned" /\ c.attempts = 3
       /\ FailedRetryable(c, 1) /\ FailedRetryable(c, 2) /\ FailedForGood(c, 3)
       /\ c.err = AttemptError(c.outs[3].err)
       /\ c.err.cause = <<"API returned an empty response">>

\* C20: missing credential.  A call of CallWithMessages checks the key of the
\* default configuration as it is when the call is made, a call of
\* CallWithMessagesWithConfig the key of its argument; when that key is empty
\* the call has returned the configuration error without any callOnce and
\* without sleeping, and the configuration error is returned in no other
\* case.
C20_MissingCredential ==
    /\ [](\A w \in Workers :
            LET c == mc[w]
            IN c.fn # "none" =>
                /\ c.checked.APIKey = "" =>
                      /\ c.pc = "returned" /\ c.err = ConfigError
                      /\ c.attempts = 0 /\ c.outs = <<>> /\ c.sent = <<>>
                      /\ c.waited = 0 /\ c.text = ""
                /\ c.err = ConfigError => c.checked.APIKey = "")
    /\ [][\A w \in Workers :
            (nCalls' # nCalls /\ mc'[w] # mc[w] /\ mc'[w].fn = "CallWithMessages")
                => mc'[w].checked = defaultConfig]_vars

\* CallWithMessages refused after a setter stored an empty key.
C20_Witness ==
    LET c == mc["w1"]
    IN /\ c.fn = "CallWithMessages" /\ c.pc = "returned"
       /\ c.checked.Provider = "qwen" /\ c.checked.APIKey = ""
       /\ c.err = ConfigError /\ c.attempts = 0

\* The locals of CallWithMessages once its loop, entered as c with the
\* configuration cfg, has received the results outs, one per callOnce, in
\* this order; results left over after the call returned are not consumed.
RECURSIVE LoopOn(_, _, _)
LoopOn(c, cfg, outs) ==
    IF outs = <<>> \/ c.pc # "attempt" THEN c
    ELSE LET c1 == AfterAttempt(c, cfg, Head(outs))
         IN IF c1.pc = "sleeping" THEN LoopOn(AfterSleep(c1), cfg, Tail(outs))
            ELSE c1

\* C21 as stated: CallWithMessagesWithConfig has the retry semantics of
\* CallWithMessages.  A call made with a credential has returned only when
\* the loop of CallWithMessages, fed the same results of callOnce, has
\* returned too, and then with the same text and error after the same number
\* of callOnce.
C21_SameRetrySemantics ==
    \A w \in Workers :
        LET c == mc[w]
            r == LoopOn(CheckKey(c.checked), c.checked, c.outs)
        IN (/\ c.fn = "CallWithMessagesWithConfig" /\ c.pc = "returned"
            /\ c.checked.APIKey # "") =>
              /\ r.pc = "returned"
              /\ r.attempts = c.attempts
              /\ r.text = c.text /\ r.err = c.err

\* C22: linear backoff of CallWithMessages.  The call has slept 0 s when it
\* makes its first attempt, 2 s when it makes its second, 2 + 4 = 6 s when it
\* makes its third; it sleeps only after the failure of attempt 1 or 2, for
\* attempt x 2 seconds, never after the third, so a call that exhausted its
\* attempts has slept 6 s in all.
C22_LinearBackoff ==
    /\ [](\A w \in Workers :
            LET c == mc[w]
            IN c.fn = "CallWithMessages" =>
                /\ c.attempt <= 1 => c.waited = 0
                /\ c.attempt = 2 => c.waited = 2
                /\ c.attempt = 3 => c.waited = 6
                /\ c.pc = "sleeping" => c.attempt \in {1, 2}
                /\ c.err.kind = "exhausted" => (c.attempt = 3 /\ c.waited = 6))
    /\ [][\A w \in Workers :
            (/\ mc'[w].fn = "CallWithMessages" /\ nCalls' = nCalls
             /\ mc'[w].waited # mc[w].waited) =>
                /\ mc[w].pc = "sleeping" /\ mc'[w].pc = "attempt"
                /\ mc[w].attempt \in {1, 2}
                /\ FailedRetryable(mc[w], mc[w].attempt)
                /\ mc'[w].attempt = mc[w].attempt + 1
                /\ mc'[w].waited - mc[w].waited = mc[w].attempt * 2]_vars

\* The call is about to make its third attempt: it slept 2 s, then 4 s.
C22_Witness ==
    LET c == mc["w1"]
    IN /\ c.fn = "CallWithMessages" /\ c.pc = "attempt" /\ c.attempt = 3
       /\ Len(c.outs) = 2 /\ c.waited = 6

\* C23: an empty completion list is surfaced and not retried.  The error
\* callOnce returns for it is not retryable, and the attempt that received it
\* is the last of its call: the call has returned that error as it is, with
\* no text, and made no further attempt.
C23_EmptyResponseNotRetried ==
    /\ ~isRetryableError(EmptyResponse)
    /\ \A w \in Workers :
          LET c == mc[w]
          IN \A k \in 1..Len(c.outs) :
                c.outs[k].err = EmptyResponse =>
                    /\ k = Len(c.outs) /\ c.attempts = k
                    /\ c.pc = "returned"
                    /\ c.err = AttemptError(EmptyResponse)
                    /\ c.text = ""

\* The empty response came at the second attempt, after one retry.
C23_Witness ==
    LET c == mc["w1"]
    IN /\ c.fn = "CallWithMessages" /\ c.pc = "returned" /\ c.attempts = 2
       /\ FailedRetryable(c, 1)
       /\ c.outs[2].err = EmptyResponse
       /\ c.err = AttemptError(EmptyResponse) /\ c.waited = 2

\* C24: non-interference of the explicit-configuration path.  The request
\* of CallWithMessagesWithConfig(cfg, ...) carries the provider, key, base
\* URL, model and timeout of cfg, whatever the setters run by the workers
\* have written or are writing into the default configuration, and no step
\* of the call writes the default configuration.
C24_ExplicitPathNonInterference ==
    /\ [](\A w \in Workers :
            LET c == mc[w]
            IN c.fn = "CallWithMessagesWithConfig" =>
                /\ c.checked \in CallerConfigs
                /\ \A k \in 1..Len(c.sent) : c.sent[k] = c.checked
                /\ (c.pc = "returned" /\ c.checked.APIKey # "") => Len(c.sent) = 1)
    /\ [][\A w \in Workers :
            (mc'[w] # mc[w] /\ mc'[w].fn = "CallWithMessagesWithConfig") =>
                /\ defaultConfig' = defaultConfig
                /\ sc' = sc
                /\ mc[w].pc = "once" => mc'[w].checked = mc[w].checked]_vars

\* The call returned while the setter of the other worker was half-way
\* through its assignments: the request is the caller's, not one field of it
\* is the default's.
C24_Witness ==
    LET c == mc["w1"]
    IN /\ c.fn = "CallWithMessagesWithConfig" /\ c.pc = "returned"
       /\ c.sent = <<c.checked>>
       /\ \A f \in Fields : defaultConfig[f] # c.checked[f]
       /\ sc["w2"].todo # {} /\ sc["w2"].todo # SetterFields[sc["w2"].fn]
       /\ defaultConfig.Provider = "qwen" /\ defaultConfig.Model = "deepseek-chat"

\* The values the setters called so far assign to field f, and its initial
\* value.
Assigned(f) ==
    {InitialConfig[f]} \cup
    {sc[v].val[f] : v \in {u \in Workers : sc[u].fn # "none" /\ f \in SetterFields[sc[u].fn]}}

\* C25: the legacy path races.  Every callOnce of CallWithMessages is sent
\* with the default configuration as it is at that moment, each field holding
\* what the last assignment of any worker's setter left there, not with what
\* the calling worker set; so when two workers configured for different
\* providers each call a setter and then CallWithMessages, a worker's request
\* can carry the other worker's provider, or fields of both setters.
C25_LegacyPathRace ==
    /\ [](\A w \in Workers :
            LET c == mc[w]
            IN c.fn = "CallWithMessages" =>
                \A k \in 1..Len(c.sent) : \A f \in Fields : c.sent[k][f] \in Assigned(f))
    /\ [][\A w \in Workers :
            (/\ mc'[w].fn = "CallWithMessages"
             /\ Len(mc'[w].sent) = Len(mc[w].sent) + 1) =>
                mc'[w].sent[Len(mc'[w].sent)] = defaultConfig]_vars

\* The first worker set DeepSeek and its key, its setter returned, and its
\* request went out with the provider of the second worker's setter, its own
\* key and the DeepSeek URL and model.
C25_Witness ==
    LET c == mc["w1"]
    IN /\ c.fn = "CallWithMessages" /\ Len(c.sent) >= 1
       /\ sc["w1"].fn = "SetDeepSeekAPIKey" /\ sc["w2"].fn = "SetQwenAPIKey"
       /\ c.checked = sc["w1"].val
       /\ c.sent[1].Provider = "qwen"
       /\ c.sent[1].APIKey = "k1"
       /\ c.sent[1].BaseURL = sc["w1"].val.BaseURL
       /\ c.sent[1].Model = sc["w1"].val.Model

\* C26: the controller only reads the store.  No step of main's start-up and
\* no step of a reload pass changes the store: only the upsert and delete
\* handlers do.  With no such request served during a pass, the store the
\* pass leaves is the snapshot it fetched.
C26_StoreReadOnly ==
    /\ [][(mainPc' # mainPc \/ h' # h) => store' = store]_vars
    /\ [][store' # store => nEdits' = nEdits + 1]_vars
    /\ [](\A p \in Handlers :
            (h[p].pc \in InFlight \cup {"fetched"} /\ ~h[p].fetchErr) =>
                store = h[p].tradersFromDB)

\* A pass that added one trader and removed another has answered; the store
\* is the one it fetched.
C26_Witness ==
    /\ h["h1"].pc = "done"
    /\ h["h1"].addOK # {} /\ h["h1"].remOK # {}
    /\ store = h["h1"].tradersFromDB
    /\ LiveIds(traders) = DocIds(store)

\* The identifiers of a list whose configuration AddTrader accepts.
Addable(list) == {i \in DocIds(list) : list[i].params \in ValidParams}

\* C27 as stated: partial-failure tolerance at start-up.  Whatever list the
\* fleet is built from (the store, or the traders of the configuration
\* file), every trader of it that AddTrader accepts is registered when the
\* start-up loop is over, main goes on to serve, and StartAll launches the
\* task of each; main ends before that only when no configuration could be
\* loaded, with an empty registry.
C27_StartupPartialFailure ==
    /\ [][(mainPc = "boot" /\ mainPc' # "boot") =>
            \/ (mainPc' = "exited" /\ LiveIds(traders') = {})
            \/ \E list \in {store} \cup FileTraders :
                  /\ DocIds(list) # {}
                  /\ LiveIds(traders') = Addable(list)
                  /\ mainPc' = "serving"]_vars
    /\ [][(mainPc = "serving" /\ mainPc' = "started") =>
            \A i \in LiveIds(traders) : traders'[i].live = 1]_vars

\* Two passes that fetched the same snapshot and listed the same registry,
\* with something to add and something to remove.
SameDiff(r1, r2) ==
    /\ r1.pc \in InFlight \cup {"done"} /\ r2.pc \in InFlight \cup {"done"}
    /\ r1.tradersFromDB = r2.tradersFromDB
    /\ r1.currentTraders = r2.currentTraders
    /\ toAdd(r1) # {} /\ toRemove(r1) # {}

\* C28: reload passes are not serialized.  Two passes can list the same
\* registry and hold the same snapshot before either applies a change; both
\* then call RemoveTrader for every identifier of L-D and AddTrader for every
\* identifier of D-L.  Each such call succeeds in at most one of the two, and
\* is counted by at most one; when both have answered, the registry holds
\* the identifiers of L that are in D and those of D-L whose configuration is
\* accepted, each with one handle whose task was launched once.
C28_DoubleApply ==
    \A p \in Handlers, q \in Handlers :
        (p # q /\ SameDiff(h[p], h[q])) =>
            /\ h[p].remOK \cap h[q].remOK = {}
            /\ h[p].addOK \cap h[q].addOK = {}
            /\ h[p].started \cap h[q].started = {}
            /\ h[p].removedCount + h[q].removedCount <= Cardinality(toRemove(h[p]))
            /\ h[p].addedCount + h[q].addedCount <= Cardinality(toAdd(h[p]))
            /\ (h[p].pc = "done" /\ h[q].pc = "done") =>
                 /\ h[p].remTried = toRemove(h[p]) /\ h[q].remTried = toRemove(h[p])
                 /\ h[p].addTried = toAdd(h[p]) /\ h[q].addTried = toAdd(h[p])
                 /\ LiveIds(traders) =
                       (currentTraderIDs(h[p]) \cap dbTraderIDs(h[p]))
                       \cup Addable(h[p].tradersFromDB)
                 /\ \A i \in LiveIds(traders) : traders[i].runs = 1
                 /\ h[p].removedCount + h[q].removedCount = Cardinality(toRemove(h[p]))
                 /\ h[p].addedCount + h[q].addedCount
                       = Cardinality(toAdd(h[p]) \cap Addable(h[p].tradersFromDB))

\* Both passes called AddTrader for the same identifier and RemoveTrader for
\* the same identifier; one won the addition, the other the removal.
C28_Witness ==
    \E p \in Handlers, q \in Handlers :
        /\ p # q /\ SameDiff(h[p], h[q])
        /\ h[p].pc = "done" /\ h[q].pc = "done"
        /\ h[p].addTried \cap h[q].addTried # {}
        /\ h[p].remTried \cap h[q].remTried # {}
        /\ h[p].addOK # {} /\ h[q].addOK = {}
        /\ h[q].remOK # {} /\ h[p].remOK = {}
        /\ LiveIds(traders) = dbTraderIDs(h[p])

\* C29 as stated: convergence under overlapping passes.  The store was
\* changed between the snapshot fetches of two passes and not afterwards (the
\* later snapshot is the store); once both passes have answered, the
\* identifiers of the registry are those of the store.
C29_ConvergenceOverlapping ==
    \A p \in Handlers, q \in Handlers :
        (/\ p # q
         /\ h[p].pc = "done" /\ h[q].pc = "done"
         /\ h[p].tradersFromDB # h[q].tradersFromDB
         /\ h[q].tradersFromDB = store) =>
            LiveIds(traders) = DocIds(store)

\* C30 as stated: at most one task per handle.  Whatever the interleaving of
\* main's start-up (API server started, then StartAll) with the reload
\* passes, the task of a registered handle is launched at most once while
\* the handle is registered.
C30_OneTaskPerHandle ==
    \A i \in Ids : Registered(traders, i) => traders[i].runs <= 1

\* C31 as stated: one configuration per invocation.  When the key was not
\* empty at the credential test of a CallWithMessages, every callOnce of
\* that call is sent with a key that is not empty and with the provider, the
\* base URL and the model of its first callOnce, also while setters are
\* running.
C31_OneConfigPerCall ==
    \A w \in Workers :
        LET c == mc[w]
        IN (c.fn = "CallWithMessages" /\ c.checked.APIKey # "") =>
            \A k \in 1..Len(c.sent) :
                /\ c.sent[k].APIKey # ""
                /\ c.sent[k].Provider = c.sent[1].Provider
                /\ c.sent[k].BaseURL = c.sent[1].BaseURL
                /\ c.sent[k].Model = c.sent[1].Model

\* C32: success ends the retry loop.  When a callOnce of CallWithMessages
\* succeeds it is the last of the call and the ones before it failed with
\* retryable errors; the call has returned its text with a nil error, and it
\* slept only before its retries (0 s, 2 s or 6 s for a success at the
\* first, second or third attempt), not after the success.
C32_SuccessEndsLoop ==
    \A w \in Workers :
        LET c == mc[w]
        IN c.fn = "CallWithMessages" =>
            \A k \in 1..Len(c.outs) :
                c.outs[k].err = NoErr =>
                    /\ k = Len(c.outs) /\ c.attempts = k /\ k <= maxRetries
                    /\ \A j \in 1..(k - 1) : FailedRetryable(c, j)
                    /\ c.pc = "returned"
                    /\ c.text = c.outs[k].text /\ c.text # ""
                    /\ c.err = NoError
                    /\ c.waited = (IF k = 1 THEN 0 ELSE IF k = 2 THEN 2 ELSE 6)

\* The third attempt succeeded after two retryable failures.
C32_Witness ==
    LET c == mc["w1"]
    IN /\ c.fn = "CallWithMessages" /\ c.pc = "returned" /\ c.attempts = 3
       /\ FailedRetryable(c, 1) /\ FailedRetryable(c, 2)
       /\ c.outs[3].err = NoErr
       /\ c.text = "content" /\ c.err = NoError /\ c.waited = 6

\* The description contains one of the six substrings, spelt as they are.
HasTransientIndicator(e) ==
    \E j \in 1..Len(e) :
        e[j] \in {"EOF", "timeout", "connection reset", "connection refused",
                  "temporary failure", "no such host"}

\* The error of a status other than 200; its description ends with the body.
IsStatusError(e) == Len(e) >= 4 /\ e[1] = "API error (status "

C34_SameGlobals ==
    [][\A i \in Ids :
          (~Registered(traders, i) /\ Registered(traders', i)) =>
              \A j \in Ids :
                  Registered(traders, j) => traders'[i].globals = traders[j].globals]_vars

\* ------------------------------------------------------------------ C35
\* The outcome of main's start-up under source selection for a store s, a listing
\* that succeeded or not, a file that could be loaded or not, its traders and
\* its global parameters: the fleet of the store exactly when the listing
\* succeeded and is not empty, else the fleet of the file, else an exit that
\* leaves the registry as it was.
SourceSelected(s, dbOk, fileOk, file, g) ==
    IF dbOk /\ DocIds(s) # {}
    THEN /\ traders' = AddAll(s, IF fileOk THEN g ELSE ZeroGlobals)
         /\ mainPc' \in {"serving", "initFailed"}
    ELSE IF fileOk
         THEN /\ traders' = AddAll(file, g)
              /\ mainPc' \in {"serving", "initFailed"}
         ELSE /\ mainPc' = "exited"
              /\ traders' = traders

\* C35: start-up source selection.  Every start-up of main is a selected
\* one: the fleet is built from the store exactly when its listing
\* succeeded and is not empty, from the configuration file when the listing
\* failed or is empty, and when that file cannot be loaded the process exits.
\* An empty store never yields a fleet: main then serves a fleet of the file
\* or has exited.  After the exit no worker is registered and none was
\* started.
C35_SourceSelection ==
    /\ [](mainPc = "exited" =>
             \A i \in Ids : ~Registered(traders, i) /\ traders[i].runs = 0)
    /\ [][mainPc = "boot" /\ mainPc' # "boot" =>
             /\ \E dbOk \in BOOLEAN, fileOk \in BOOLEAN, file \in FileTraders,
                   g \in FileGlobals :
                     SourceSelected(store, dbOk, fileOk, file, g)
             /\ DocIds(store) = {} =>
                   \/ mainPc' = "exited"
                   \/ \E i \in Ids : Registered(traders', i)]_vars

\* The store holds a record, its listing failed and the configuration file
\* could not be loaded: main has exited and the registry is empty.
C35_Witness ==
    /\ mainPc = "exited"
    /\ DocIds(store) # {}
    /\ \A i \in Ids : ~Registered(traders, i)

====
